---- MODULE Spec2Model ----
(***************************************************************************)
(* Model of scripts/utils/process_pdf.py: the CITATION.cff line parser     *)
(* (_parse_citation_cff), the metadata assembly (_load_default_metadata,   *)
(* the overrides of main, the filter of embed_metadata) and the step       *)
(* sequence of main.                                                       *)
(*                                                                         *)
(* A Python str is modelled as a sequence of one-character strings, so     *)
(* that strip, startswith, split and join are computed character by        *)
(* character. Python's None is the value None below.                       *)
(***************************************************************************)
EXTENDS Integers, Sequences, FiniteSets, TLC

\* ------------------------------------------------------------------------
\* Bounds of the model
\* ------------------------------------------------------------------------

\* Longest citation text, in lines, that Init enumerates.
MaxLines == 3

\* ------------------------------------------------------------------------
\* Python values and str methods
\* ------------------------------------------------------------------------

\* Python's None (no str equals it).
None == <<"<None>">>

\* The characters str.strip() removes.
Whitespace == {" ", "\t", "\n", "\r", "\f"}

DQ == "\""

SQ == "'"

RECURSIVE LStripChars(_, _)
\* s.lstrip(chars)
LStripChars(s, chars) ==
    IF s # <<>> /\ Head(s) \in chars THEN LStripChars(Tail(s), chars) ELSE s

RECURSIVE RStripChars(_, _)
\* s.rstrip(chars)
RStripChars(s, chars) ==
    IF s # <<>> /\ s[Len(s)] \in chars
    THEN RStripChars(SubSeq(s, 1, Len(s) - 1), chars)
    ELSE s

\* s.strip(chars)
StripChars(s, chars) == RStripChars(LStripChars(s, chars), chars)

\* s.strip()
Strip(s) == StripChars(s, Whitespace)

\* Mutant of StripQuoted: the quotes are left on.
StripQuoted_WhitespaceOnly(s) == Strip(s)

\* value.strip().strip('"').strip("'")
StripQuoted(s) == StripChars(StripChars(Strip(s), {DQ}), {SQ})

\* s.startswith(p)
StartsWith(s, p) == Len(s) >= Len(p) /\ SubSeq(s, 1, Len(p)) = p

\* s.endswith(p)
EndsWith(s, p) == Len(s) >= Len(p) /\ SubSeq(s, Len(s) - Len(p) + 1, Len(s)) = p

\* c in s, for a single character c
HasChar(s, c) == \E k \in 1..Len(s) : s[k] = c

\* p in s, for a str p
HasSub(s, p) == \E k \in 0..(Len(s) - Len(p)) : SubSeq(s, k + 1, k + Len(p)) = p

\* Index of the first c in s (0 when there is none).
FirstIndex(s, c) ==
    IF HasChar(s, c) THEN CHOOSE k \in 1..Len(s) : s[k] = c /\ \A m \in 1..(k - 1) : s[m] # c
    ELSE 0

\* s.split(c, 1)[1]: what follows the first c. Python raises IndexError when
\* s holds no c; None stands for that.
SplitAfter(s, c) ==
    IF HasChar(s, c) THEN SubSeq(s, FirstIndex(s, c) + 1, Len(s)) ELSE None

RECURSIVE SplitOn(_, _)
\* s.split(c): the pieces between the occurrences of c.
SplitOn(s, c) ==
    IF HasChar(s, c)
    THEN <<SubSeq(s, 1, FirstIndex(s, c) - 1)>> \o SplitOn(SubSeq(s, FirstIndex(s, c) + 1, Len(s)), c)
    ELSE <<s>>

RECURSIVE Join(_, _)
\* sep.join(parts)
Join(parts, sep) ==
    IF parts = <<>> THEN <<>>
    ELSE IF Len(parts) = 1 THEN parts[1]
    ELSE parts[1] \o sep \o Join(Tail(parts), sep)

RECURSIVE SplitWs(_)
\* s.split(): the maximal runs of non-whitespace characters.
SplitWs(s) ==
    LET t == LStripChars(s, Whitespace)
        n == IF \E k \in 1..Len(t) : t[k] \in Whitespace
             THEN (CHOOSE k \in 1..Len(t) : t[k] \in Whitespace /\ \A m \in 1..(k - 1) : t[m] \notin Whitespace) - 1
             ELSE Len(t)
    IN  IF t = <<>> THEN <<>>
        ELSE <<SubSeq(t, 1, n)>> \o SplitWs(SubSeq(t, n + 1, Len(t)))

LowerLetters == <<"a","b","c","d","e","f","g","h","i","j","k","l","m","n","o","p","q","r","s","t","u","v","w","x","y","z">>

UpperLetters == <<"A","B","C","D","E","F","G","H","I","J","K","L","M","N","O","P","Q","R","S","T","U","V","W","X","Y","Z">>

\* s.upper()
Upper(s) ==
    [k \in 1..Len(s) |->
        IF \E m \in 1..Len(LowerLetters) : LowerLetters[m] = s[k]
        THEN UpperLetters[CHOOSE m \in 1..Len(LowerLetters) : LowerLetters[m] = s[k]]
        ELSE s[k]]

\* Python truthiness of an Optional[str]: neither None nor "".
Truthy(v) == v # None /\ v # <<>>

\* dict.get(key): the value, or None.
Get(d, key) == IF key \in DOMAIN d THEN d[key] ELSE None

\* d with d[key] = value
Put(d, key, value) == [k \in DOMAIN d \cup {key} |-> IF k = key THEN value ELSE d[k]]

\* ------------------------------------------------------------------------
\* _parse_citation_cff: the literals it tests lines against
\* ------------------------------------------------------------------------
P_abstract == <<"a", "b", "s", "t", "r", "a", "c", "t", ":">>

P_keywords == <<"k", "e", "y", "w", "o", "r", "d", "s", ":">>

P_title == <<"t", "i", "t", "l", "e", ":">>

P_doi == <<"d", "o", "i", ":">>

P_date_released == <<"d", "a", "t", "e", "-", "r", "e", "l", "e", "a", "s", "e", "d", ":">>

P_version == <<"v", "e", "r", "s", "i", "o", "n", ":">>

P_url == <<"u", "r", "l", ":">>

P_repository_code == <<"r", "e", "p", "o", "s", "i", "t", "o", "r", "y", "-", "c", "o", "d", "e", ":">>

P_license == <<"l", "i", "c", "e", "n", "s", "e", ":">>

P_authors == <<"a", "u", "t", "h", "o", "r", "s", ":">>

P_preferred_citation == <<"p", "r", "e", "f", "e", "r", "r", "e", "d", "-", "c", "i", "t", "a", "t", "i", "o", "n", ":">>

P_family_names == <<"f", "a", "m", "i", "l", "y", "-", "n", "a", "m", "e", "s", ":">>

P_given_names == <<"g", "i", "v", "e", "n", "-", "n", "a", "m", "e", "s", ":">>

\* The seven scalar branches of the loop, in the order the code tests them:
\* the prefix tested and the key of data that set_scalar writes.
ScalarBranches ==
    << [prefix |-> P_title,           key |-> "title"],
       [prefix |-> P_doi,             key |-> "doi"],
       [prefix |-> P_date_released,   key |-> "date_released"],
       [prefix |-> P_version,         key |-> "version"],
       [prefix |-> P_url,             key |-> "url"],
       [prefix |-> P_repository_code, key |-> "repository_code"],
       [prefix |-> P_license,         key |-> "license"] >>

\* ------------------------------------------------------------------------
\* Citation texts: the lines Init builds cff_text.splitlines() from
\* ------------------------------------------------------------------------

L_title_plain == <<"t", "i", "t", "l", "e", ":", " ", "A">>

L_title_nested == <<"t", "i", "t", "l", "e", ":", " ", DQ, SQ, "B", SQ, DQ>>

L_title_empty == <<"t", "i", "t", "l", "e", ":">>

L_doi_indented == <<" ", " ", "d", "o", "i", ":", " ", SQ, "C", SQ>>

L_abstract_open == <<"a", "b", "s", "t", "r", "a", "c", "t", ":", " ", ">">>

L_text == <<" ", " ", "x">>

L_keywords == <<"k", "e", "y", "w", "o", "r", "d", "s", ":">>

L_item_k == <<" ", " ", "-", " ", "k">>

L_item_quoted == <<" ", " ", "-", " ", DQ, "m", DQ>>

L_item_empty == <<" ", " ", "-">>

L_authors == <<"a", "u", "t", "h", "o", "r", "s", ":">>

L_family == <<" ", " ", "-", " ", "f", "a", "m", "i", "l", "y", "-", "n", "a", "m", "e", "s", ":", " ", "S">>

L_given == <<" ", " ", "-", " ", "g", "i", "v", "e", "n", "-", "n", "a", "m", "e", "s", ":", " ", "G">>

L_blank == <<>>

LinePool ==
    {L_title_plain, L_title_nested, L_title_empty, L_doi_indented, L_abstract_open, L_text, L_keywords, L_item_k, L_item_quoted, L_item_empty, L_authors, L_family, L_given, L_blank}

\* Every text of at most MaxLines lines over LinePool.
Texts == UNION {[1..n -> LinePool] : n \in 0..MaxLines}

\* ------------------------------------------------------------------------
\* State
\* ------------------------------------------------------------------------

VARIABLES
    \* _parse_citation_cff
    lines,                  \* cff_text.splitlines()
    i,                      \* index of the main loop (0-based, as in the code)
    j,                      \* index of the author scan (0-based)
    in_abstract,
    in_keywords,
    abstract_lines,
    keywords,
    first_author_family,
    first_author_given,
    data,                   \* the record being built: key -> value
    pc,                     \* "start", "loop", "scan", "done" or "error"
    examined,               \* per line, the modes the main loop read it in
    \* main
    cff,                    \* the record _parse_citation_cff returned
    version,                \* the content of VERSION.json
    args,                   \* argparse's namespace: title, author, doi, url
    metadata,               \* the metadata dict of main
    cmd,                    \* the -key=value arguments embed_metadata built
    meta_str,               \* the /key (value) entries embed_metadata_gs built
    step,                   \* where main is
    input_exists,           \* the input PDF exists
    input_pdf,              \* the input PDF: "original", "compressed", "tagged"
    tmp_exists,             \* the temporary file exists
    compressed,             \* compress_pdf: "no" (not called), "ok", "failed"
    calls,                  \* the external operations attempted, in order
    exit_code               \* main's return value (-1: none)

parser_vars ==
    <<lines, i, j, in_abstract, in_keywords, abstract_lines, keywords,
      first_author_family, first_author_given, data, pc, examined>>

main_vars ==
    <<cff, version, args, metadata, cmd, meta_str, step, input_exists, input_pdf,
      tmp_exists, compressed, calls, exit_code>>

vars == <<parser_vars, main_vars>>

\* The empty dict.
EmptyDict == [k \in {} |-> <<>>]

\* ------------------------------------------------------------------------
\* _parse_citation_cff
\* ------------------------------------------------------------------------

\* Mutant of set_scalar: a field once set is kept.
set_scalar_KeepFirst(d, key, value) ==
    IF StripQuoted(value) # <<>> /\ key \notin DOMAIN d
    THEN Put(d, key, StripQuoted(value))
    ELSE d

\* set_scalar(key, value), as the dict it leaves.
set_scalar(d, key, value) ==
    IF StripQuoted(value) # <<>> THEN Put(d, key, StripQuoted(value)) ELSE d

\* line = lines[i]
line == lines[i + 1]

\* stripped = line.strip()
stripped == Strip(line)

\* The loop is at its head with a line left to read.
AtLine == pc = "loop" /\ i < Len(lines)

\* The main loop reads lines[i] in the given mode.
Examine(mode) == examined' = [examined EXCEPT ![i + 1] = Append(@, mode)]

\* main is not running.
MainIdle ==
    /\ cff = EmptyDict
    /\ version = EmptyDict
    /\ args = [title |-> None, author |-> None, doi |-> None, url |-> None]
    /\ metadata = EmptyDict
    /\ cmd = <<>>
    /\ meta_str = <<>>
    /\ step = "idle"
    /\ input_exists = FALSE
    /\ input_pdf = "original"
    /\ tmp_exists = FALSE
    /\ compressed = "no"
    /\ calls = <<>>
    /\ exit_code = -1

\* Before the call: no text yet.
ParseInit ==
    /\ lines = <<>>
    /\ i = 0
    /\ j = 0
    /\ in_abstract = FALSE
    /\ in_keywords = FALSE
    /\ abstract_lines = <<>>
    /\ keywords = <<>>
    /\ first_author_family = None
    /\ first_author_given = None
    /\ data = EmptyDict
    /\ pc = "start"
    /\ examined = <<>>
    /\ MainIdle

\* Lines 38-53: the call with some text; the state before the loop.
SplitLines ==
    /\ pc = "start"
    /\ lines' \in Texts
    /\ examined' = [k \in 1..Len(lines') |-> <<>>]
    /\ pc' = "loop"
    /\ UNCHANGED <<i, j, in_abstract, in_keywords, abstract_lines, keywords,
                   first_author_family, first_author_given, data>>
    /\ UNCHANGED main_vars

\* Mutant of AbstractEnd: the line that ends the capture is consumed.
AbstractEnd_Consumes ==
    /\ pc = "loop" /\ i < Len(lines)
    /\ in_abstract
    /\ ~StartsWith(lines[i + 1], <<" ", " ">>) /\ Strip(lines[i + 1]) # <<>>
    /\ HasChar(lines[i + 1], ":")
    /\ in_abstract' = FALSE
    /\ data' = Put(data, "abstract", Strip(Join(abstract_lines, <<"\n">>)))
    /\ abstract_lines' = <<>>
    /\ i' = i + 1
    /\ examined' = [examined EXCEPT ![i + 1] = Append(@, "abstract")]
    /\ UNCHANGED <<lines, j, in_keywords, keywords, first_author_family,
                   first_author_given, pc>>
    /\ UNCHANGED main_vars

\* Lines 58-63: abstract capture ends on a line that is not indented, not
\* blank and holds a colon; the line is not consumed.
AbstractEnd ==
    /\ AtLine
    /\ in_abstract
    /\ ~StartsWith(line, <<" ", " ">>) /\ stripped # <<>> /\ HasChar(line, ":")
    /\ in_abstract' = FALSE
    /\ data' = Put(data, "abstract", Strip(Join(abstract_lines, <<"\n">>)))
    /\ abstract_lines' = <<>>
    /\ Examine("abstract")
    /\ UNCHANGED <<lines, i, j, in_keywords, keywords, first_author_family,
                   first_author_given, pc>>
    /\ UNCHANGED main_vars

\* Lines 64-66: abstract capture takes the line.
AbstractAppend ==
    /\ AtLine
    /\ in_abstract
    /\ ~(~StartsWith(line, <<" ", " ">>) /\ stripped # <<>> /\ HasChar(line, ":"))
    /\ abstract_lines' = Append(abstract_lines,
            IF StartsWith(line, <<" ", " ">>) THEN SubSeq(line, 3, Len(line)) ELSE line)
    /\ i' = i + 1
    /\ Examine("abstract")
    /\ UNCHANGED <<lines, j, in_abstract, in_keywords, keywords, first_author_family,
                   first_author_given, data, pc>>
    /\ UNCHANGED main_vars

\* Mutant of KeywordItem: the entry is put first.
KeywordItem_Prepend ==
    /\ pc = "loop" /\ i < Len(lines)
    /\ ~in_abstract /\ in_keywords
    /\ StartsWith(Strip(lines[i + 1]), <<"-">>)
    /\ LET kw == StripQuoted(Tail(Strip(lines[i + 1])))
       IN  keywords' = IF kw # <<>> THEN <<kw>> \o keywords ELSE keywords
    /\ i' = i + 1
    /\ examined' = [examined EXCEPT ![i + 1] = Append(@, "keywords")]
    /\ UNCHANGED <<lines, j, in_abstract, in_keywords, abstract_lines,
                   first_author_family, first_author_given, data, pc>>
    /\ UNCHANGED main_vars

\* Lines 68-75: keyword capture takes a line that starts with the list marker.
KeywordItem ==
    /\ AtLine
    /\ ~in_abstract /\ in_keywords
    /\ StartsWith(stripped, <<"-">>)
    /\ LET kw == StripQuoted(Tail(stripped))
       IN  keywords' = IF kw # <<>> THEN Append(keywords, kw) ELSE keywords
    /\ i' = i + 1
    /\ Examine("keywords")
    /\ UNCHANGED <<lines, j, in_abstract, in_keywords, abstract_lines,
                   first_author_family, first_author_given, data, pc>>
    /\ UNCHANGED main_vars

\* Mutant of KeywordEnd: the mode is not left.
KeywordEnd_Stuck ==
    /\ pc = "loop" /\ i < Len(lines)
    /\ ~in_abstract /\ in_keywords
    /\ ~StartsWith(Strip(lines[i + 1]), <<"-">>)
    /\ examined' = [examined EXCEPT ![i + 1] = Append(@, "keywords")]
    /\ UNCHANGED <<lines, i, j, in_abstract, in_keywords, abstract_lines, keywords,
                   first_author_family, first_author_given, data, pc>>
    /\ UNCHANGED main_vars

\* Lines 76-77: keyword capture ends on a line without the marker; the line
\* is not consumed.
KeywordEnd ==
    /\ AtLine
    /\ ~in_abstract /\ in_keywords
    /\ ~StartsWith(stripped, <<"-">>)
    /\ in_keywords' = FALSE
    /\ Examine("keywords")
    /\ UNCHANGED <<lines, i, j, in_abstract, abstract_lines, keywords,
                   first_author_family, first_author_given, data, pc>>
    /\ UNCHANGED main_vars

\* The loop is at a line in normal mode.
AtNormal == AtLine /\ ~in_abstract /\ ~in_keywords

\* Lines 81-84
IsAbstractOpen(s) == StartsWith(s, P_abstract) /\ EndsWith(s, <<">">>)

\* Lines 86-89
IsKeywordsOpen(s) == ~IsAbstractOpen(s) /\ StartsWith(s, P_keywords)

\* Lines 91-124: the scalar branches that s enters (at most one, since no
\* prefix is a prefix of another), as indices of ScalarBranches.
ScalarMatches(s) ==
    IF IsAbstractOpen(s) \/ IsKeywordsOpen(s) THEN {}
    ELSE {b \in 1..Len(ScalarBranches) :
            /\ StartsWith(s, ScalarBranches[b].prefix)
            /\ \A c \in 1..(b - 1) : ~StartsWith(s, ScalarBranches[c].prefix)}

\* Line 126
IsAuthorsOpen(s) ==
    ~IsAbstractOpen(s) /\ ~IsKeywordsOpen(s) /\ ScalarMatches(s) = {} /\ StartsWith(s, P_authors)

\* Lines 81-84: "abstract: ... >" opens abstract capture.
AbstractStart ==
    /\ AtNormal
    /\ IsAbstractOpen(stripped)
    /\ in_abstract' = TRUE
    /\ i' = i + 1
    /\ Examine("normal")
    /\ UNCHANGED <<lines, j, in_keywords, abstract_lines, keywords,
                   first_author_family, first_author_given, data, pc>>
    /\ UNCHANGED main_vars

\* Lines 86-89: "keywords:" opens keyword capture.
KeywordsStart ==
    /\ AtNormal
    /\ IsKeywordsOpen(stripped)
    /\ in_keywords' = TRUE
    /\ i' = i + 1
    /\ Examine("normal")
    /\ UNCHANGED <<lines, j, in_abstract, abstract_lines, keywords,
                   first_author_family, first_author_given, data, pc>>
    /\ UNCHANGED main_vars

\* Lines 91-124: a recognized scalar key; stripped.split(":", 1)[1] goes to
\* set_scalar.
ScalarLine ==
    /\ AtNormal
    /\ \E b \in ScalarMatches(stripped) :
         IF SplitAfter(stripped, ":") = None
         THEN /\ pc' = "error"
              /\ UNCHANGED <<i, data, examined>>
         ELSE /\ data' = set_scalar(data, ScalarBranches[b].key, SplitAfter(stripped, ":"))
              /\ i' = i + 1
              /\ Examine("normal")
              /\ pc' = pc
    /\ UNCHANGED <<lines, j, in_abstract, in_keywords, abstract_lines, keywords,
                   first_author_family, first_author_given>>
    /\ UNCHANGED main_vars

\* Lines 126-128: "authors:" starts the scan at the next line.
AuthorsStart ==
    /\ AtNormal
    /\ IsAuthorsOpen(stripped)
    /\ j' = i + 1
    /\ pc' = "scan"
    /\ Examine("normal")
    /\ UNCHANGED <<lines, i, in_abstract, in_keywords, abstract_lines, keywords,
                   first_author_family, first_author_given, data>>
    /\ UNCHANGED main_vars

\* Line 130: s = lines[j].strip()
s_scan == Strip(lines[j + 1])

\* Line 132: s_key = s.lstrip("- ").strip()
s_key == Strip(LStripChars(s_scan, {"-", " "}))

\* Line 133: the scan stops before lines[j].
ScanStopsAt ==
    \/ StartsWith(s_scan, P_preferred_citation)
    \/ (s_scan # <<>> /\ ~StartsWith(lines[j + 1], <<" ">>) /\ HasChar(s_scan, ":"))

\* Lines 135-136: first_author_family after lines[j].
FamilyAfter ==
    IF StartsWith(s_key, P_family_names) /\ first_author_family = None
    THEN StripQuoted(SplitAfter(s_key, ":"))
    ELSE first_author_family

\* Lines 137-138: first_author_given after lines[j].
GivenAfter ==
    IF StartsWith(s_key, P_given_names) /\ first_author_given = None
    THEN StripQuoted(SplitAfter(s_key, ":"))
    ELSE first_author_given

\* Lines 129-141: one iteration of the scan that goes on to the next line.
ScanStep ==
    /\ pc = "scan"
    /\ j < Len(lines)
    /\ ~ScanStopsAt
    /\ first_author_family' = FamilyAfter
    /\ first_author_given' = GivenAfter
    /\ ~(Truthy(FamilyAfter) /\ Truthy(GivenAfter))
    /\ j' = j + 1
    /\ UNCHANGED <<lines, i, in_abstract, in_keywords, abstract_lines, keywords,
                   data, pc, examined>>
    /\ UNCHANGED main_vars

\* Lines 129-143: the scan ends (no line left, a stopping line, or both
\* names found) and the main loop moves past "authors:".
ScanEnd ==
    /\ pc = "scan"
    /\ \/ /\ j >= Len(lines)
          /\ UNCHANGED <<first_author_family, first_author_given>>
       \/ /\ j < Len(lines)
          /\ ScanStopsAt
          /\ UNCHANGED <<first_author_family, first_author_given>>
       \/ /\ j < Len(lines)
          /\ ~ScanStopsAt
          /\ Truthy(FamilyAfter) /\ Truthy(GivenAfter)
          /\ first_author_family' = FamilyAfter
          /\ first_author_given' = GivenAfter
    /\ i' = i + 1
    /\ pc' = "loop"
    /\ UNCHANGED <<lines, j, in_abstract, in_keywords, abstract_lines, keywords,
                   data, examined>>
    /\ UNCHANGED main_vars

\* Line 145: any other line is skipped.
SkipLine ==
    /\ AtNormal
    /\ ~IsAbstractOpen(stripped) /\ ~IsKeywordsOpen(stripped)
    /\ ScalarMatches(stripped) = {} /\ ~IsAuthorsOpen(stripped)
    /\ i' = i + 1
    /\ Examine("normal")
    /\ UNCHANGED <<lines, j, in_abstract, in_keywords, abstract_lines, keywords,
                   first_author_family, first_author_given, data, pc>>
    /\ UNCHANGED main_vars

\* Lines 147-148
WithAbstract(d) ==
    IF in_abstract /\ abstract_lines # <<>>
    THEN Put(d, "abstract", Strip(Join(abstract_lines, <<"\n">>)))
    ELSE d

\* Lines 150-151
WithKeywords(d) == IF keywords # <<>> THEN Put(d, "keywords", keywords) ELSE d

\* Lines 153-154
WithAuthor(d) ==
    IF Truthy(first_author_family) \/ Truthy(first_author_given)
    THEN Put(d, "author",
             Join(SelectSeq(<<first_author_given, first_author_family>>, Truthy), <<" ">>))
    ELSE d

\* Lines 147-156: the loop is over; the record is completed and returned.
Finish ==
    /\ pc = "loop"
    /\ i >= Len(lines)
    /\ data' = WithAuthor(WithKeywords(WithAbstract(data)))
    /\ pc' = "done"
    /\ UNCHANGED <<lines, i, j, in_abstract, in_keywords, abstract_lines, keywords,
                   first_author_family, first_author_given, examined>>
    /\ UNCHANGED main_vars

ParseNext ==
    \/ SplitLines
    \/ AbstractEnd
    \/ AbstractAppend
    \/ KeywordItem
    \/ KeywordEnd
    \/ AbstractStart
    \/ KeywordsStart
    \/ ScalarLine
    \/ AuthorsStart
    \/ ScanStep
    \/ ScanEnd
    \/ SkipLine
    \/ Finish

ParseSpec == ParseInit /\ [][ParseNext]_vars

\* ------------------------------------------------------------------------
\* _load_default_metadata
\* ------------------------------------------------------------------------

\* line 172
S_TEP_EXP == <<"T", "E", "P", "-", "E", "X", "P">>

\* line 208
S_Producer == <<"T", "E", "P", "-", "E", "X", "P", " ", "R", "e", "s", "e", "a", "r", "c", "h", " ", "P", "r", "o", "j", "e", "c", "t">>

\* lines 201, 369, 371
S_DOI == <<"D", "O", "I", ":", " ">>

\* line 203
S_Code == <<"C", "o", "d", "e", ":", " ">>

\* lines 375, 377
S_URL == <<"U", "R", "L", ":", " ">>

\* line 193
S_Midnight == <<" ", "0", "0", ":", "0", "0", ":", "0", "0">>

\* line 219
S_CC_BY == <<"C", "C", "-", "B", "Y">>

\* line 206
S_CC_BY_4 == <<"C", "C", "-", "B", "Y", "-", "4", ".", "0">>

\* line 219
S_Copyright == <<"C", "r", "e", "a", "t", "i", "v", "e", " ", "C", "o", "m", "m", "o", "n", "s", " ", "A", "t", "t", "r", "i", "b", "u", "t", "i", "o", "n", " ", "4", ".", "0", " ", "I", "n", "t", "e", "r", "n", "a", "t", "i", "o", "n", "a", "l", " ", "L", "i", "c", "e", "n", "s", "e", " ", "(", "C", "C", " ", "B", "Y", " ", "4", ".", "0", ")">>

\* a or b, for Optional[str] a
OrElse(a, b) == IF Truthy(a) THEN a ELSE b

\* Line 176: codename
Codename(ver) == OrElse(Get(ver, "codename"), <<>>)

\* Mutant of Vnum: the record's version comes first.
Vnum_RecordFirst(rec, ver) == OrElse(Get(rec, "version"), OrElse(Get(ver, "version"), <<>>))

\* Line 177: vnum = str(version.get("version") or cff.get("version") or "")
Vnum(rec, ver) == OrElse(Get(ver, "version"), OrElse(Get(rec, "version"), <<>>))

\* f"{codename} v{vnum}"
Release(rec, ver) == Codename(ver) \o <<" ", "v">> \o Vnum(rec, ver)

\* Lines 181-184: keywords
KeywordsOf(rec, ver) ==
    LET keywords_list == IF "keywords" \in DOMAIN rec THEN rec["keywords"] ELSE <<>>
        joined == Join(keywords_list, <<";", " ">>)
    IN  IF Truthy(Codename(ver)) /\ Truthy(Vnum(rec, ver))
        THEN IF joined # <<>> THEN joined \o <<";", " ">> \o Release(rec, ver)
             ELSE Release(rec, ver)
        ELSE joined

\* Lines 189-195: creation_date; unpacking anything but three pieces raises
\* ValueError, which leaves "".
CreationDateOf(rec) ==
    LET date_released == OrElse(Get(rec, "date_released"), <<>>)
        parts == SplitOn(date_released, "-")
    IN  IF date_released # <<>> /\ Len(parts) = 3
        THEN parts[1] \o <<":">> \o parts[2] \o <<":">> \o parts[3] \o S_Midnight
        ELSE <<>>

\* Lines 197-204: subject
SubjectOf(rec) ==
    LET abstract == OrElse(Get(rec, "abstract"), <<>>)
        doi == OrElse(Get(rec, "doi"), <<>>)
        repo == OrElse(Get(rec, "repository_code"), OrElse(Get(rec, "url"), <<>>))
        subject_parts ==
            (IF abstract # <<>> THEN <<Join(SplitWs(abstract), <<" ">>)>> ELSE <<>>)
            \o (IF doi # <<>> THEN <<S_DOI \o doi>> ELSE <<>>)
            \o (IF repo # <<>> THEN <<S_Code \o repo>> ELSE <<>>)
    IN  Strip(Join(subject_parts, <<" ">>))

\* Lines 206, 219: Copyright
CopyrightOf(rec) ==
    LET license_str == OrElse(Get(rec, "license"), S_CC_BY_4)
    IN  IF HasSub(Upper(license_str), S_CC_BY) THEN S_Copyright ELSE license_str

\* Lines 208-210: producer
ProducerOf(rec, ver) ==
    IF Truthy(Codename(ver)) /\ Truthy(Vnum(rec, ver))
    THEN S_Producer \o <<" ", "(">> \o Release(rec, ver) \o <<")">>
    ELSE S_Producer

\* Lines 212-220: the dict literal.
BaseMetadata(rec, ver) ==
    [Title     |-> OrElse(Get(rec, "title"), S_TEP_EXP),
     Author    |-> OrElse(Get(rec, "author"), <<>>),
     Creator   |-> OrElse(Get(rec, "author"), <<>>),
     Producer  |-> ProducerOf(rec, ver),
     Subject   |-> SubjectOf(rec),
     Keywords  |-> KeywordsOf(rec, ver),
     Copyright |-> CopyrightOf(rec)]

\* Lines 222-224
WithDates(m, rec) ==
    IF CreationDateOf(rec) # <<>>
    THEN Put(Put(m, "CreationDate", CreationDateOf(rec)), "ModifyDate", CreationDateOf(rec))
    ELSE m

\* Lines 227-228
WithIdentifier(m, rec) ==
    IF Truthy(Get(rec, "doi")) THEN Put(m, "Identifier", rec["doi"]) ELSE m

\* _load_default_metadata, given the parsed record and VERSION.json.
LoadDefaultMetadata(rec, ver) == WithIdentifier(WithDates(BaseMetadata(rec, ver), rec), rec)

\* ------------------------------------------------------------------------
\* main: the overrides
\* ------------------------------------------------------------------------

\* Lines 361-362
OverrideTitle(m, a) == IF Truthy(a.title) THEN Put(m, "Title", a.title) ELSE m

\* Lines 363-365
OverrideAuthor(m, a) ==
    IF Truthy(a.author) THEN Put(Put(m, "Author", a.author), "Creator", a.author) ELSE m

\* Lines 366-371
OverrideDoi(m, a) ==
    IF Truthy(a.doi)
    THEN Put(Put(m, "Identifier", a.doi), "Subject",
             IF Truthy(Get(m, "Subject"))
             THEN Strip(m["Subject"] \o <<" ">> \o S_DOI \o a.doi)
             ELSE Strip(S_DOI \o a.doi))
    ELSE m

\* Lines 373-377
OverrideUrl(m, a) ==
    IF Truthy(a.url)
    THEN Put(m, "Subject",
             IF Truthy(Get(m, "Subject"))
             THEN Strip(m["Subject"] \o <<" ">> \o S_URL \o a.url)
             ELSE Strip(S_URL \o a.url))
    ELSE m

\* Lines 361-377
ApplyOverrides(m, a) == OverrideUrl(OverrideDoi(OverrideAuthor(OverrideTitle(m, a), a), a), a)

\* ------------------------------------------------------------------------
\* embed_metadata, embed_metadata_gs
\* ------------------------------------------------------------------------

\* The order in which the dict holds its keys (insertion order).
KeyOrder ==
    <<"Title", "Author", "Creator", "Producer", "Subject", "Keywords", "Copyright",
      "CreationDate", "ModifyDate", "Identifier">>

RECURSIVE Items(_, _)
\* metadata.items() from the n-th key of KeyOrder on.
Items(m, n) ==
    IF n > Len(KeyOrder) THEN <<>>
    ELSE (IF KeyOrder[n] \in DOMAIN m THEN <<KeyOrder[n]>> ELSE <<>>) \o Items(m, n + 1)

\* Mutant of Passes: every value is passed on.
Passes_All(m, key) == TRUE

\* The non-empty trimmed value of key in m is passed on.
Passes(m, key) == Strip(m[key]) # <<>>

\* Lines 273-280: the [key, v] of each "-key=v" argument, v the trimmed
\* value; a value that is empty after trimming adds none.
ExifArgs(m) ==
    LET keep(key) == Passes(m, key)
        kept == SelectSeq(Items(m, 1), keep)
    IN  [n \in 1..Len(kept) |-> <<kept[n], Strip(m[kept[n]])>>]

RECURSIVE escape_ps(_)
\* Line 293
escape_ps(str) ==
    IF str = <<>> THEN <<>>
    ELSE (IF Head(str) \in {"\\", "(", ")"} THEN <<"\\", Head(str)>> ELSE <<Head(str)>>)
         \o escape_ps(Tail(str))

\* Lines 296-301: the [key, text] of each "/key (text) " entry.
PdfmarkEntries(m) ==
    LET keep(key) == Passes(m, key)
        kept == SelectSeq(Items(m, 1), keep)
    IN  [n \in 1..Len(kept) |-> <<kept[n], escape_ps(Strip(m[kept[n]]))>>]

\* ------------------------------------------------------------------------
\* main: its inputs
\* ------------------------------------------------------------------------

V_title == <<"T">>

V_blank == <<" ">>

V_author == <<"G", " ", "S">>

V_doi == <<"1">>

V_date == <<"1", "-", "2", "-", "3">>

V_short_date == <<"1", "-", "2">>

V_version == <<"1">>

V_abstract == <<"a", "\n", "b">>

V_keyword == <<"k">>

V_repo == <<"r">>

V_url == <<"u">>

V_license_cc == <<"c", "c", "-", "b", "y">>

V_license_mit == <<"M", "I", "T">>

V_codename == <<"C">>

V_release == <<"2">>

A_title == <<"O">>

A_author == <<"B">>

A_doi == <<"2">>

A_url == <<"w">>

\* The dict with the pairs of S whose value is not None.
DictOf(S) ==
    LET present == {kv \in S : kv[2] # None}
    IN  [k \in {kv[1] : kv \in present} |-> (CHOOSE kv \in present : kv[1] = k)[2]]

\* The fields of a record that no claim is about come in three shapes.
Extras ==
    { {},
      {<<"date_released", V_date>>, <<"repository_code", V_repo>>, <<"url", V_url>>,
       <<"license", V_license_cc>>},
      {<<"date_released", V_short_date>>, <<"url", V_url>>, <<"license", V_license_mit>>} }

\* Records _parse_citation_cff can return.
Records ==
    { DictOf({<<"title", t>>, <<"author", a>>, <<"doi", d>>, <<"version", v>>,
              <<"abstract", ab>>} \cup e)
            @@ (IF kw THEN [keywords |-> <<V_keyword>>] ELSE EmptyDict) :
        t \in {None, V_title, V_blank}, a \in {None, V_author}, d \in {None, V_doi},
        v \in {None, V_version}, ab \in {None, V_abstract}, e \in Extras, kw \in BOOLEAN }

\* Contents of VERSION.json.
Versions ==
    { DictOf({<<"codename", c>>, <<"version", v>>}) :
        c \in {None, V_codename}, v \in {None, V_release} }

\* Command lines: each override given or not.
Arguments ==
    [title : {None, A_title}, author : {None, A_author}, doi : {None, A_doi},
     url : {None, A_url}]

\* ------------------------------------------------------------------------
\* main
\* ------------------------------------------------------------------------

\* _parse_citation_cff is not running.
ParserIdle ==
    /\ lines = <<>>
    /\ i = 0
    /\ j = 0
    /\ in_abstract = FALSE
    /\ in_keywords = FALSE
    /\ abstract_lines = <<>>
    /\ keywords = <<>>
    /\ first_author_family = None
    /\ first_author_given = None
    /\ data = EmptyDict
    /\ pc = "idle"
    /\ examined = <<>>

\* Lines 338-351: main is entered with a command line, beside the project
\* files and an input path that names a file or not.
MainInit ==
    /\ ParserIdle
    /\ cff \in Records
    /\ version \in Versions
    /\ args \in Arguments
    /\ input_exists \in BOOLEAN
    /\ metadata = EmptyDict
    /\ cmd = <<>>
    /\ meta_str = <<>>
    /\ step = "start"
    /\ input_pdf = "original"
    /\ tmp_exists = FALSE
    /\ compressed = "no"
    /\ calls = <<>>
    /\ exit_code = -1

\* Lines 353-356: no input file, return 1.
InputMissing ==
    /\ step = "start"
    /\ ~input_exists
    /\ exit_code' = 1
    /\ step' = "done"
    /\ UNCHANGED <<cff, version, args, metadata, cmd, meta_str, input_exists, input_pdf,
                   tmp_exists, compressed, calls>>
    /\ UNCHANGED parser_vars

\* Lines 353-359: the input exists; the default metadata are loaded.
LoadMetadata ==
    /\ step = "start"
    /\ input_exists
    /\ metadata' = LoadDefaultMetadata(cff, version)
    /\ step' = "overrides"
    /\ UNCHANGED <<cff, version, args, cmd, meta_str, input_exists, input_pdf,
                   tmp_exists, compressed, calls, exit_code>>
    /\ UNCHANGED parser_vars

\* Lines 361-377: the overrides of the command line.
Overrides ==
    /\ step = "overrides"
    /\ metadata' = ApplyOverrides(metadata, args)
    /\ step' = "tmp"
    /\ UNCHANGED <<cff, version, args, cmd, meta_str, input_exists, input_pdf,
                   tmp_exists, compressed, calls, exit_code>>
    /\ UNCHANGED parser_vars

\* Lines 383-385: the temporary file is created and kept.
MakeTmp ==
    /\ step = "tmp"
    /\ tmp_exists' = TRUE
    /\ step' = "compress"
    /\ UNCHANGED <<cff, version, args, metadata, cmd, meta_str, input_exists, input_pdf,
                   compressed, calls, exit_code>>
    /\ UNCHANGED parser_vars

\* Lines 388, 233-267: compress_pdf returns; the output is in the temporary
\* file.
CompressOk ==
    /\ step = "compress"
    /\ calls' = Append(calls, "gs_compress")
    /\ compressed' = "ok"
    /\ step' = "replace"
    /\ UNCHANGED <<cff, version, args, metadata, cmd, meta_str, input_exists, input_pdf,
                   tmp_exists, exit_code>>
    /\ UNCHANGED parser_vars

\* Lines 388, 245-269: compress_pdf raises (Ghostscript missing or failing,
\* a size that cannot be read); Ghostscript may have left its output or not.
CompressFails ==
    /\ step = "compress"
    /\ calls' = Append(calls, "gs_compress")
    /\ compressed' = "failed"
    /\ tmp_exists' \in BOOLEAN
    /\ step' = "except"
    /\ UNCHANGED <<cff, version, args, metadata, cmd, meta_str, input_exists, input_pdf,
                   exit_code>>
    /\ UNCHANGED parser_vars

\* Lines 389-393: os.replace moves the temporary file over the input.
ReplaceOk ==
    /\ step = "replace"
    /\ calls' = Append(calls, "replace")
    /\ input_pdf' = "compressed"
    /\ tmp_exists' = FALSE
    /\ step' = "embed"
    /\ UNCHANGED <<cff, version, args, metadata, cmd, meta_str, input_exists,
                   compressed, exit_code>>
    /\ UNCHANGED parser_vars

\* Line 389: os.replace raises; nothing moved.
ReplaceFails ==
    /\ step = "replace"
    /\ calls' = Append(calls, "replace")
    /\ step' = "except"
    /\ UNCHANGED <<cff, version, args, metadata, cmd, meta_str, input_exists, input_pdf,
                   tmp_exists, compressed, exit_code>>
    /\ UNCHANGED parser_vars

\* Mutant of CompressionError: the handler does not return.
CompressionError_FallsThrough ==
    /\ step = "except"
    /\ IF tmp_exists
       THEN /\ calls' = Append(calls, "unlink")
            /\ tmp_exists' \in BOOLEAN
       ELSE UNCHANGED <<calls, tmp_exists>>
    /\ step' = "embed"
    /\ UNCHANGED <<cff, version, args, metadata, cmd, meta_str, input_exists, input_pdf,
                   compressed, exit_code>>
    /\ UNCHANGED parser_vars

\* Lines 394-401: the handler: the temporary file, if there, is unlinked,
\* an error of the unlink is passed over; return 1.
CompressionError ==
    /\ step = "except"
    /\ IF tmp_exists
       THEN /\ calls' = Append(calls, "unlink")
            /\ tmp_exists' \in BOOLEAN
       ELSE UNCHANGED <<calls, tmp_exists>>
    /\ exit_code' = 1
    /\ step' = "done"
    /\ UNCHANGED <<cff, version, args, metadata, cmd, meta_str, input_exists, input_pdf,
                   compressed>>
    /\ UNCHANGED parser_vars

\* Lines 404, 273-285: exiftool writes the metadata.
EmbedExiftool ==
    /\ step = "embed"
    /\ cmd' = ExifArgs(metadata)
    /\ calls' = Append(calls, "exiftool_embed")
    /\ input_pdf' = "tagged"
    /\ step' = "verify"
    /\ UNCHANGED <<cff, version, args, metadata, meta_str, input_exists, tmp_exists,
                   compressed, exit_code>>
    /\ UNCHANGED parser_vars

\* Lines 404, 273-288, 291-325: exiftool fails or is missing; Ghostscript
\* writes the pdfmark entries, or fails too, and then its error leaves main.
EmbedFallback ==
    /\ step = "embed"
    /\ cmd' = ExifArgs(metadata)
    /\ meta_str' = PdfmarkEntries(metadata)
    /\ calls' = calls \o <<"exiftool_embed", "gs_pdfmark">>
    /\ \/ input_pdf' = "tagged" /\ step' = "verify"
       \/ input_pdf' = input_pdf /\ step' = "raised"
    /\ UNCHANGED <<cff, version, args, metadata, input_exists, tmp_exists,
                   compressed, exit_code>>
    /\ UNCHANGED parser_vars

\* Lines 408-415: the verification, with exiftool or skipped without.
Verify ==
    /\ step = "verify"
    /\ calls' = Append(calls, "exiftool_verify")
    /\ step' = "report"
    /\ UNCHANGED <<cff, version, args, metadata, cmd, meta_str, input_exists, input_pdf,
                   tmp_exists, compressed, exit_code>>
    /\ UNCHANGED parser_vars

\* Lines 417-420: return 0.
Done ==
    /\ step = "report"
    /\ exit_code' = 0
    /\ step' = "done"
    /\ UNCHANGED <<cff, version, args, metadata, cmd, meta_str, input_exists, input_pdf,
                   tmp_exists, compressed, calls>>
    /\ UNCHANGED parser_vars

MainNext ==
    \/ InputMissing
    \/ LoadMetadata
    \/ Overrides
    \/ MakeTmp
    \/ CompressOk
    \/ CompressFails
    \/ ReplaceOk
    \/ ReplaceFails
    \/ CompressionError
    \/ EmbedExiftool
    \/ EmbedFallback
    \/ Verify
    \/ Done

MainSpec == MainInit /\ [][MainNext]_vars

\* ------------------------------------------------------------------------
\* Properties of _parse_citation_cff
\* ------------------------------------------------------------------------

\* The lines the main loop read in normal mode.
NormalLines == {k \in 1..Len(lines) : \E m \in 1..Len(examined[k]) : examined[k][m] = "normal"}

\* The lines read in normal mode that enter scalar branch b.
Occurrences(b) == {k \in NormalLines : ScalarMatches(Strip(lines[k])) = {b}}

\* What follows the colon of the key on line k, trimmed.
Remainder(k) == Strip(SplitAfter(Strip(lines[k]), ":"))

\* r with one layer of matching quote characters removed.
OneLayer(r) ==
    IF Len(r) >= 2 /\ r[1] = r[Len(r)] /\ r[1] \in {DQ, SQ}
    THEN SubSeq(r, 2, Len(r) - 1)
    ELSE r

\* v is r without a run of double quotes followed by a run of single quotes
\* at its start, and the mirror image at its end, both runs as long as can be.
QuoteCore(r, v) ==
    \E a, b \in 0..Len(r) :
        /\ a + b <= Len(r)
        /\ v = SubSeq(r, a + 1, Len(r) - b)
        /\ v # <<>>
        /\ \E m \in 0..a :
             /\ \A k \in 1..m : r[k] = DQ
             /\ \A k \in (m + 1)..a : r[k] = SQ
             /\ v[1] # SQ
             /\ (m = a => v[1] # DQ)
        /\ \E m \in 0..b :
             /\ \A k \in 1..m : r[Len(r) + 1 - k] = DQ
             /\ \A k \in (m + 1)..b : r[Len(r) + 1 - k] = SQ
             /\ v[Len(v)] # SQ
             /\ (m = b => v[Len(v)] # DQ)

\* The substrings of r.
Substrings(r) == {SubSeq(r, a, b) : a \in 1..(Len(r) + 1), b \in 0..Len(r)}

\* A natural number that every step of the parse makes smaller: the lines
\* left to the main loop, each counted Len(lines) + 3 times, then what is
\* left of the work on the current line.
Variant ==
    LET n == Len(lines)
    IN  CASE pc = "loop" -> (n + 3) * (n - i) + 1 + (IF in_abstract \/ in_keywords THEN 1 ELSE 0)
          [] pc = "scan" -> (n + 3) * (n - i - 1) + 2 + (n - j)
          [] OTHER -> 0

\* C4: the parse never raises and always ends: no line is read more than
\* twice by the main loop, a second reading follows a reading that ended a
\* capture mode and is made in normal mode, a loop step that keeps the index
\* leaves capture mode entirely, the author scan index grows by one at every
\* step it stays in the scan, and every step decreases Variant, which is
\* never negative, so the record is returned after finitely many steps.
C4_Terminates ==
    /\ [](/\ pc # "error"
          /\ j <= Len(lines)
          /\ Variant >= 0
          /\ \A k \in 1..Len(lines) :
               /\ Len(examined[k]) <= 2
               /\ Len(examined[k]) = 2 =>
                    examined[k][1] \in {"abstract", "keywords"} /\ examined[k][2] = "normal")
    /\ [][(pc = "loop" /\ pc' = "loop" /\ i' = i) =>
            ((in_abstract \/ in_keywords) /\ ~in_abstract' /\ ~in_keywords')]_vars
    /\ [][(pc = "loop" /\ pc' = "loop" /\ i' # i) => i' = i + 1]_vars
    /\ [][(pc = "scan" /\ pc' = "scan") => (j' = j + 1 /\ j' <= Len(lines))]_vars
    /\ [][pc # "start" => Variant' < Variant]_vars

\* C4 witness: a line was read twice and the scan walked over a line before
\* the record was returned.
C4_Witness ==
    /\ pc = "done"
    /\ \E k \in 1..Len(lines) : Len(examined[k]) = 2
    /\ j >= 2

\* C5 as claimed: a scalar key on several lines read in normal mode leaves
\* the value derived from the last of them.
C5_LastLineWins ==
    pc = "done" =>
        \A b \in 1..Len(ScalarBranches) :
            Cardinality(Occurrences(b)) >= 2 =>
                LET last == CHOOSE k \in Occurrences(b) : \A m \in Occurrences(b) : m <= k
                    v == StripQuoted(Remainder(last))
                IN  IF v # <<>> THEN Get(data, ScalarBranches[b].key) = v
                    ELSE ScalarBranches[b].key \notin DOMAIN data

\* C5 amended: the field holds the value of the last occurrence whose value
\* is not empty after stripping, and is absent when there is none.
C5_LastNonEmptyWins ==
    pc = "done" =>
        \A b \in 1..Len(ScalarBranches) :
            LET filled == {k \in Occurrences(b) : StripQuoted(Remainder(k)) # <<>>}
            IN  IF filled = {} THEN ScalarBranches[b].key \notin DOMAIN data
                ELSE Get(data, ScalarBranches[b].key) =
                        StripQuoted(Remainder(CHOOSE k \in filled : \A m \in filled : m <= k))

\* C5 witness: title on two lines with different values; the later is kept.
C5_Witness ==
    /\ pc = "done"
    /\ Len(lines) >= 2
    /\ lines[1] = L_title_plain
    /\ lines[2] = L_title_nested
    /\ Occurrences(1) = {1, 2}
    /\ Get(data, "title") = <<"B">>

\* The single occurrences of scalar keys: <<branch, line>>.
SingleOccurrences ==
    {<<b, k>> \in (1..Len(ScalarBranches)) \X (1..Len(lines)) : Occurrences(b) = {k}}

\* C8 as claimed: a scalar key occurring once yields the trimmed remainder
\* of its line with one layer of matching quotes removed (absent if empty).
C8_OneLayerStripped ==
    pc = "done" =>
        \A o \in SingleOccurrences :
            LET v == OneLayer(Remainder(o[2]))
            IN  IF v # <<>> THEN Get(data, ScalarBranches[o[1]].key) = v
                ELSE ScalarBranches[o[1]].key \notin DOMAIN data

\* C8 amended: the value is the trimmed remainder without every leading and
\* trailing double quote and then every leading and trailing single quote,
\* however many and whether or not they match; the field is absent exactly
\* when nothing is left. When one layer of matching quotes (or none) wraps a
\* text that neither starts nor ends with a quote, that text is the value.
C8_AllLayersStripped ==
    pc = "done" =>
        \A o \in SingleOccurrences :
            LET key == ScalarBranches[o[1]].key
                r == Remainder(o[2])
            IN  /\ key \in DOMAIN data => QuoteCore(r, data[key])
                /\ key \notin DOMAIN data => ~\E v \in Substrings(r) : QuoteCore(r, v)
                /\ (OneLayer(r) # <<>> /\ OneLayer(r)[1] \notin {DQ, SQ}
                      /\ OneLayer(r)[Len(OneLayer(r))] \notin {DQ, SQ})
                   => Get(data, key) = OneLayer(r)

\* C8 witness: a title quoted in two layers, occurring once, parsed.
C8_Witness ==
    /\ pc = "done"
    /\ \E k \in 1..Len(lines) :
         /\ lines[k] = L_title_nested
         /\ <<1, k>> \in SingleOccurrences
    /\ Get(data, "title") = <<"B">>

\* The "keywords:" lines read in normal mode.
KeywordsLines == {k \in NormalLines : IsKeywordsOpen(Strip(lines[k]))}

\* Line k carries the list marker.
HasMarker(k) == StartsWith(Strip(lines[k]), <<"-">>)

\* The entry of marker line k: marker, whitespace and quotes stripped.
Entry(k) == StripQuoted(Tail(Strip(lines[k])))

\* The marker lines that directly follow a "keywords:" line.
BlockItems ==
    {k \in 1..Len(lines) : \E h \in KeywordsLines : h < k /\ \A m \in (h + 1)..k : HasMarker(m)}

RECURSIVE EntriesFrom(_, _)
\* The entries of the lines of BlockItems from line k on, in source order;
\* with nonEmptyOnly, those that are not empty.
EntriesFrom(k, nonEmptyOnly) ==
    IF k > Len(lines) THEN <<>>
    ELSE (IF k \in BlockItems /\ (~nonEmptyOnly \/ Entry(k) # <<>>) THEN <<Entry(k)>> ELSE <<>>)
         \o EntriesFrom(k + 1, nonEmptyOnly)

\* C7 as claimed: the n marker lines after a "keywords:" line yield exactly
\* their n entries in source order; the key is present only with at least
\* one entry; no "keywords:" line, no key.
C7_ExactlyTheEntries ==
    pc = "done" =>
        /\ KeywordsLines = {} => "keywords" \notin DOMAIN data
        /\ "keywords" \in DOMAIN data => data["keywords"] # <<>>
        /\ (Cardinality(KeywordsLines) = 1 /\ BlockItems # {}) =>
              ("keywords" \in DOMAIN data /\ data["keywords"] = EntriesFrom(1, FALSE))

\* C7 amended: the keywords are the entries of the marker lines that follow
\* the "keywords:" lines, in source order, without those that are empty
\* after stripping; the key is absent when no entry is left.
C7_NonEmptyEntries ==
    pc = "done" =>
        /\ KeywordsLines = {} => "keywords" \notin DOMAIN data
        /\ "keywords" \in DOMAIN data => data["keywords"] # <<>>
        /\ IF EntriesFrom(1, TRUE) = <<>> THEN "keywords" \notin DOMAIN data
           ELSE "keywords" \in DOMAIN data /\ data["keywords"] = EntriesFrom(1, TRUE)

\* C7 witness: a block of two entries, the second quoted, both captured in
\* source order.
C7_Witness ==
    /\ pc = "done"
    /\ lines = <<L_keywords, L_item_k, L_item_quoted>>
    /\ "keywords" \in DOMAIN data
    /\ data["keywords"] = << <<"k">>, <<"m">> >>

\* The first "authors:" line read in normal mode (0 when there is none).
AuthorsLine ==
    LET S == {k \in NormalLines : IsAuthorsOpen(Strip(lines[k]))}
    IN  IF S = {} THEN 0 ELSE CHOOSE k \in S : \A m \in S : k <= m

\* Line k stops the author scan.
StopsScan(k) ==
    \/ StartsWith(Strip(lines[k]), P_preferred_citation)
    \/ (Strip(lines[k]) # <<>> /\ ~StartsWith(lines[k], <<" ">>) /\ HasChar(lines[k], ":"))

\* The lines of the first listed author: those after "authors:" up to the
\* second list marker or the line that stops the scan.
FirstAuthorLines ==
    {k \in (AuthorsLine + 1)..Len(lines) :
        /\ AuthorsLine > 0
        /\ \A m \in (AuthorsLine + 1)..k : ~StopsScan(m)
        /\ Cardinality({m \in (AuthorsLine + 1)..k : HasMarker(m)}) <= 1}

\* The value of the first line of S that gives the sub-field, or None.
NameIn(S, prefix) ==
    LET T == {k \in S : StartsWith(Strip(LStripChars(Strip(lines[k]), {"-", " "})), prefix)}
    IN  IF T = {} THEN None
        ELSE StripQuoted(SplitAfter(Strip(lines[CHOOSE k \in T : \A m \in T : k <= m]), ":"))

\* C3 as claimed: the author is built from the first listed author's names
\* alone.
C3_FirstAuthorOnly ==
    pc = "done" =>
        LET given == NameIn(FirstAuthorLines, P_given_names)
            family == NameIn(FirstAuthorLines, P_family_names)
        IN  "author" \in DOMAIN data =>
                data["author"] = Join(SelectSeq(<<given, family>>, Truthy), <<" ">>)

\* C9: no step holds both capture modes; the step that ends a capture mode
\* keeps the index, leaves both modes and changes no field of the record
\* but abstract; and the next step on that line is the normal-mode step for
\* it, with the effect the line has when read first in normal mode.
C9_NotConsumed ==
    /\ [](~(in_abstract /\ in_keywords))
    /\ [][(pc = "loop" /\ ((in_abstract /\ ~in_abstract') \/ (in_keywords /\ ~in_keywords'))) =>
            /\ i' = i /\ pc' = "loop"
            /\ ~in_abstract' /\ ~in_keywords'
            /\ keywords' = keywords
            /\ \A key \in (DOMAIN data) \ {"abstract"} : Get(data', key) = data[key]
            /\ (DOMAIN data') \ {"abstract"} = (DOMAIN data) \ {"abstract"}]_vars
    /\ [][(pc = "loop" /\ i < Len(lines) /\ examined[i + 1] # <<>>) =>
            /\ ~in_abstract /\ ~in_keywords
            /\ examined'[i + 1] = Append(examined[i + 1], "normal")
            /\ IsAbstractOpen(stripped) => (in_abstract' /\ ~in_keywords' /\ i' = i + 1 /\ data' = data)
            /\ IsKeywordsOpen(stripped) => (in_keywords' /\ ~in_abstract' /\ i' = i + 1 /\ data' = data)
            /\ IsAuthorsOpen(stripped) => (pc' = "scan" /\ j' = i + 1 /\ data' = data)
            /\ \A b \in ScalarMatches(stripped) :
                 /\ i' = i + 1
                 /\ data' = set_scalar(data, ScalarBranches[b].key, SplitAfter(stripped, ":"))]_vars

\* C9 witness: a title line ended an abstract capture, was read again in
\* normal mode and set the title.
C9_Witness ==
    /\ pc = "done"
    /\ \E k \in 1..Len(lines) :
         /\ lines[k] = L_title_plain
         /\ examined[k] = <<"abstract", "normal">>
    /\ Get(data, "title") = <<"A">>
    /\ "abstract" \in DOMAIN data

\* ------------------------------------------------------------------------
\* Properties of the metadata assembly and of main
\* ------------------------------------------------------------------------

\* main has applied the overrides.
Assembled == step \in {"tmp", "compress", "replace", "except", "embed", "verify", "raised", "report"}
             \/ (step = "done" /\ input_exists)

\* The number of places where p occurs in str.
CountSub(str, p) ==
    Cardinality({k \in 0..(Len(str) - Len(p)) : SubSeq(str, k + 1, k + Len(p)) = p})

\* C1 as claimed: with a DOI override and a different DOI in the record,
\* Identifier is the override and Subject holds one "DOI: " segment, with
\* the override, and not the record's DOI.
C1_OverrideReplaces ==
    (Assembled /\ Truthy(args.doi) /\ Truthy(Get(cff, "doi")) /\ Get(cff, "doi") # args.doi) =>
        /\ Get(metadata, "Identifier") = args.doi
        /\ CountSub(metadata["Subject"], S_DOI) = 1
        /\ HasSub(metadata["Subject"], S_DOI \o args.doi)
        /\ ~HasSub(metadata["Subject"], S_DOI \o cff["doi"])

\* C2 as claimed: no key of the assembled mapping has a value that is empty
\* after trimming.
C2_NoBlankValue ==
    Assembled => \A key \in DOMAIN metadata : Strip(metadata[key]) # <<>>

\* The value holds a character that is not whitespace.
NotBlank(value) == \E k \in 1..Len(value) : value[k] \notin Whitespace

\* The keys of the entries of a sequence of [key, value] pairs.
KeysOf(entries) == {entries[n][1] : n \in 1..Len(entries)}

\* C2 amended: the mapping keeps its seven base keys whatever their values
\* (Author, Creator, Subject and Keywords are "" without source data); it
\* is what embed_metadata and embed_metadata_gs hand to the tool that holds
\* a key only if its value is not empty after trimming, once, with the
\* trimmed value.
C2_BlankNeverEmbedded ==
    /\ Assembled =>
         {"Title", "Author", "Creator", "Producer", "Subject", "Keywords", "Copyright"}
            \subseteq DOMAIN metadata
    /\ \A n \in 1..Len(cmd) :
         /\ cmd[n][2] # <<>>
         /\ cmd[n][2][1] \notin Whitespace
         /\ cmd[n][2][Len(cmd[n][2])] \notin Whitespace
         /\ HasSub(metadata[cmd[n][1]], cmd[n][2])
         /\ \A m \in 1..Len(cmd) : cmd[m][1] = cmd[n][1] => m = n
    /\ "exiftool_embed" \in KeysOf([n \in 1..Len(calls) |-> <<calls[n]>>]) =>
         KeysOf(cmd) = {key \in DOMAIN metadata : NotBlank(metadata[key])}
    /\ \A n \in 1..Len(meta_str) : meta_str[n][2] # <<>>
    /\ "gs_pdfmark" \in KeysOf([n \in 1..Len(calls) |-> <<calls[n]>>]) =>
         KeysOf(meta_str) = {key \in DOMAIN metadata : NotBlank(metadata[key])}

\* C2 witness: no author anywhere and a blank title; the mapping holds
\* both, exiftool was given neither.
C2_Witness ==
    /\ step = "verify"
    /\ metadata["Author"] = <<>>
    /\ metadata["Title"] = V_blank
    /\ cmd # <<>>
    /\ KeysOf(cmd) \cap {"Author", "Creator", "Title"} = {}

\* "TEP-EXP Research Project (<codename> v<v>)"
Extended(codename, v) == S_Producer \o <<" ", "(">> \o codename \o <<" ", "v">> \o v \o <<")">>

\* C6 as claimed: Producer is extended exactly when VERSION.json holds both
\* codename and version, whatever the record holds.
C6_DescriptorOnly ==
    Assembled =>
        metadata["Producer"] =
            IF Truthy(Get(version, "codename")) /\ Truthy(Get(version, "version"))
            THEN Extended(version["codename"], version["version"])
            ELSE S_Producer

\* C6 amended: Producer is extended exactly when VERSION.json holds a
\* codename and a version is held by VERSION.json or, failing that, by the
\* record; the version shown is the one of VERSION.json when it has one and
\* the record's otherwise.
C6_RecordVersionFallback ==
    Assembled =>
        metadata["Producer"] =
            IF Truthy(Get(version, "codename")) /\ Truthy(Get(version, "version"))
            THEN Extended(version["codename"], version["version"])
            ELSE IF Truthy(Get(version, "codename")) /\ Truthy(Get(cff, "version"))
            THEN Extended(version["codename"], cff["version"])
            ELSE S_Producer

\* C6 witness: both files hold a version; the one of VERSION.json is shown.
C6_Witness ==
    /\ Assembled
    /\ Get(version, "codename") = V_codename
    /\ Get(version, "version") = V_release
    /\ Get(cff, "version") = V_version
    /\ metadata["Producer"] = Extended(V_codename, V_release)

\* The operation was attempted.
Called(op) == \E n \in 1..Len(calls) : calls[n] = op

\* Operation a was attempted, and before every attempt of b.
Before(a, b) ==
    \A n \in 1..Len(calls) : calls[n] = b => \E m \in 1..(n - 1) : calls[m] = a

\* What C10 says of the steps, but for the temporary file.
Gated ==
    /\ Called("replace") => compressed = "ok"
    /\ Before("gs_compress", "replace")
    /\ Called("exiftool_embed") => input_pdf # "original"
    /\ Before("replace", "exiftool_embed")
    /\ Before("exiftool_embed", "exiftool_verify")
    /\ (step = "done" /\ compressed = "failed") =>
         /\ exit_code = 1
         /\ input_pdf = "original"
         /\ ~Called("replace") /\ ~Called("exiftool_embed") /\ ~Called("gs_pdfmark")
         /\ ~Called("exiftool_verify")

\* C10 as claimed: the steps are gated, and after a failed compression the
\* temporary file is gone.
C10_TmpRemoved ==
    /\ Gated
    /\ (step = "done" /\ compressed = "failed") => ~tmp_exists

\* C10 amended: the steps are gated, and after a failed compression the
\* temporary file is gone unless its removal was attempted and failed, a
\* failure main passes over.
C10_TmpRemovalAttempted ==
    /\ Gated
    /\ (step = "done" /\ compressed = "failed") =>
         (~tmp_exists \/ (calls # <<>> /\ calls[Len(calls)] = "unlink"))
    /\ (step = "done" /\ exit_code = 1 /\ input_exists) => input_pdf = "original"

\* C10 witness: the compression failed, the file Ghostscript left was
\* removed and main returned 1.
C10_Witness ==
    /\ step = "done"
    /\ compressed = "failed"
    /\ calls = <<"gs_compress", "unlink">>
    /\ ~tmp_exists
    /\ exit_code = 1

====
